---- MODULE Spec2Model ----
(***************************************************************************)
(* Model of examples/Algorithm_Choice.ipynb: the two recursion relations   *)
(* prec and qrec for 1/3^n, the closed form 1/3.**n and the fractional     *)
(* error np.abs(1 - p/expected), in IEEE-754 binary64 arithmetic.          *)
(*                                                                         *)
(* Spec runs the notebook's cells line by line; SpecDet is Spec with one   *)
(* ended operation remembered; SpecMath iterates the two recursion         *)
(* formulas of the text in exact rational arithmetic.                      *)
(*                                                                         *)
(* TLC's integers are 32 bits wide, so the 53-bit significands of binary64 *)
(* are carried as naturals written in base 2^15, least significant limb    *)
(* first, without leading zero limbs (the empty sequence is 0).            *)
(***************************************************************************)
EXTENDS Integers, Sequences, FiniteSets, TLC

(***************************************************************************)
(* Natural numbers of unbounded size.                                      *)
(***************************************************************************)
LimbBits == 15

BASE == 2^LimbBits

Max2(x, y) == IF x >= y THEN x ELSE y

Min2(x, y) == IF x <= y THEN x ELSE y

Limb(a, i) == IF i >= 1 /\ i <= Len(a) THEN a[i] ELSE 0

RECURSIVE TopIdx(_, _)
TopIdx(a, i) == IF i = 0 THEN 0 ELSE IF a[i] # 0 THEN i ELSE TopIdx(a, i - 1)

BNorm(a) == SubSeq(a, 1, TopIdx(a, Len(a)))

RECURSIVE BFromNat(_)
BFromNat(x) == IF x = 0 THEN <<>> ELSE <<x % BASE>> \o BFromNat(x \div BASE)

RECURSIVE BitLenSmall(_)
BitLenSmall(x) == IF x = 0 THEN 0 ELSE 1 + BitLenSmall(x \div 2)

BitLen(a) == IF Len(a) = 0 THEN 0 ELSE LimbBits * (Len(a) - 1) + BitLenSmall(a[Len(a)])

Bit(a, i) == (Limb(a, (i \div LimbBits) + 1) \div 2^(i % LimbBits)) % 2

BIsOdd(a) == Limb(a, 1) % 2 = 1

RECURSIVE BCmpFrom(_, _, _)
BCmpFrom(a, b, i) ==
    IF i = 0 THEN 0
    ELSE IF a[i] < b[i] THEN -1
    ELSE IF a[i] > b[i] THEN 1
    ELSE BCmpFrom(a, b, i - 1)

BCmp(a, b) ==
    IF Len(a) < Len(b) THEN -1
    ELSE IF Len(a) > Len(b) THEN 1
    ELSE BCmpFrom(a, b, Len(a))

RECURSIVE BAddLoop(_, _, _, _)
BAddLoop(a, b, i, c) ==
    IF i > Len(a) /\ i > Len(b)
    THEN IF c = 0 THEN <<>> ELSE <<c>>
    ELSE LET s == Limb(a, i) + Limb(b, i) + c
         IN  IF s < BASE
             THEN <<s>> \o BAddLoop(a, b, i + 1, 0)
             ELSE <<s - BASE>> \o BAddLoop(a, b, i + 1, 1)

BAdd(a, b) == BAddLoop(a, b, 1, 0)

RECURSIVE BSubLoop(_, _, _, _)
BSubLoop(a, b, i, c) ==
    IF i > Len(a) THEN <<>>
    ELSE LET s == a[i] - Limb(b, i) - c
         IN  IF s < 0
             THEN <<s + BASE>> \o BSubLoop(a, b, i + 1, 1)
             ELSE <<s>> \o BSubLoop(a, b, i + 1, 0)

\* a - b, for a >= b
BSub(a, b) == BNorm(BSubLoop(a, b, 1, 0))

RECURSIVE BMulSmallLoop(_, _, _, _)
BMulSmallLoop(a, m, i, c) ==
    IF i > Len(a)
    THEN IF c = 0 THEN <<>> ELSE <<c>>
    ELSE LET s == a[i] * m + c
         IN  IF s < BASE
             THEN <<s>> \o BMulSmallLoop(a, m, i + 1, 0)
             ELSE <<s % BASE>> \o BMulSmallLoop(a, m, i + 1, s \div BASE)

\* a * m, for 0 <= m < BASE
BMulSmall(a, m) == IF m = 0 THEN <<>> ELSE BMulSmallLoop(a, m, 1, 0)

ZeroLimbs(k) == SubSeq([i \in 1..k |-> 0], 1, k)

BShlLimbs(a, k) == IF Len(a) = 0 THEN <<>> ELSE ZeroLimbs(k) \o a

RECURSIVE BMulLoop(_, _, _)
BMulLoop(a, b, i) ==
    IF i > Len(b) THEN <<>>
    ELSE BAdd(BMulSmall(a, b[i]), BShlLimbs(BMulLoop(a, b, i + 1), 1))

BMul(a, b) == BMulLoop(a, b, 1)

\* a * 2^k
BShl(a, k) == BShlLimbs(BMulSmall(a, 2^(k % LimbBits)), k \div LimbBits)

\* floor(a / 2^k)
BShr(a, k) ==
    LET d == k \div LimbBits
        r == k % LimbBits
        n0 == Len(a) - d
    IN  IF n0 <= 0 THEN <<>>
        ELSE BNorm(SubSeq([i \in 1..n0 |->
                 (a[i + d] \div 2^r) + (Limb(a, i + d + 1) % 2^r) * 2^(LimbBits - r)],
                 1, n0))

\* floor(a / 2^k) rounded to nearest, ties to even
BShrRound(a, k) ==
    LET q    == BShr(a, k)
        rest == BSub(a, BShl(q, k))
        half == BShl(<<1>>, k - 1)
        c    == BCmp(rest, half)
    IN  IF c > 0 \/ (c = 0 /\ BIsOdd(q)) THEN BAdd(q, <<1>>) ELSE q

\* long division, one bit of the numerator at a time, from bit i down to bit lo
RECURSIVE BDivLoop(_, _, _, _, _)
BDivLoop(num, d, i, lo, qr) ==
    IF i < lo THEN qr
    ELSE LET r2 == BAdd(BMulSmall(qr.r, 2), IF Bit(num, i) = 1 THEN <<1>> ELSE <<>>)
         IN  IF BCmp(r2, d) >= 0
             THEN BDivLoop(num, d, i - 1, lo,
                           [q |-> BAdd(BMulSmall(qr.q, 2), <<1>>), r |-> BSub(r2, d)])
             ELSE BDivLoop(num, d, i - 1, lo, [q |-> BMulSmall(qr.q, 2), r |-> r2])

\* the bits of the numerator are taken a limb at a time
RECURSIVE BDivLimbs(_, _, _)
BDivLimbs(num, d, l) ==
    IF l > Len(num) THEN [q |-> <<>>, r |-> <<>>]
    ELSE BDivLoop(num, d, LimbBits * l - 1, LimbBits * (l - 1), BDivLimbs(num, d, l + 1))

\* [q |-> floor(num / d), r |-> num mod d], for d > 0
BDivMod(num, d) == BDivLimbs(num, d, 1)

RECURSIVE BPow(_, _)
BPow(b, k) ==
    IF k = 0 THEN <<1>>
    ELSE IF k % 2 = 1 THEN BMulSmall(BPow(b, k - 1), b)
    ELSE LET h == BPow(b, k \div 2) IN BMul(h, h)

(***************************************************************************)
(* IEEE-754 binary64, the element type of np.zeros and of Python's floats. *)
(* A value is [k, s, m, e]: kind "fin", "inf" or "nan", sign s (1 is       *)
(* negative), and for a finite value the magnitude m * 2^e.  Finite values *)
(* are kept canonical: zero has m = <<>> and e = 0, a normal number has a  *)
(* 53-bit m, a subnormal number has e = EMin and a shorter m.  Every       *)
(* operation rounds to nearest, ties to even.                              *)
(***************************************************************************)
MantBits == 53

EMin == -1074

EMax == 1024

FZero(s) == [k |-> "fin", s |-> s, m |-> <<>>, e |-> 0]

FInf(s) == [k |-> "inf", s |-> s, m |-> <<>>, e |-> 0]

FNaN == [k |-> "nan", s |-> 0, m |-> <<>>, e |-> 0]

IsNaN(x) == x.k = "nan"

IsInf(x) == x.k = "inf"

IsFinite(x) == x.k = "fin"

IsZero(x) == x.k = "fin" /\ Len(x.m) = 0

Xor(s, t) == IF s = t THEN 0 ELSE 1

FPack(s, m, e) ==
    IF Len(m) = 0 THEN FZero(s)
    ELSE IF BitLen(m) + e > EMax THEN FInf(s)
    ELSE [k |-> "fin", s |-> s, m |-> m, e |-> e]

\* the binary64 value nearest to (-1)^s * M * 2^E
FRound(s, M, E) ==
    IF Len(M) = 0 THEN FZero(s)
    ELSE LET e1 == Max2(BitLen(M) + E - MantBits, EMin)
         IN  IF e1 <= E
             THEN FPack(s, BShl(M, E - e1), e1)
             ELSE LET q == BShrRound(M, e1 - E)
                  IN  IF BitLen(q) > MantBits
                      THEN FPack(s, BShr(q, 1), e1 + 1)
                      ELSE FPack(s, q, e1)

FromInt(i) == FRound(IF i < 0 THEN 1 ELSE 0, BFromNat(IF i < 0 THEN -i ELSE i), 0)

FNeg(x) == IF IsNaN(x) THEN x ELSE [x EXCEPT !.s = 1 - x.s]

FAbs(x) == [x EXCEPT !.s = 0]

\* -1, 0, 1 as |a| is below, equal to, above |b|; a and b are not nan
MagCmp(a, b) ==
    IF IsInf(a) THEN (IF IsInf(b) THEN 0 ELSE 1)
    ELSE IF IsInf(b) THEN -1
    ELSE IF IsZero(a) THEN (IF IsZero(b) THEN 0 ELSE -1)
    ELSE IF IsZero(b) THEN 1
    ELSE IF a.e < b.e THEN -1
    ELSE IF a.e > b.e THEN 1
    ELSE BCmp(a.m, b.m)

\* a + b for nonzero finite a, b with |a| >= |b|.  When b lies wholly below
\* the guard bits of a, it only decides the direction of rounding.
FAddOrdered(a, b) ==
    LET far == a.e - b.e > MantBits + 3
        e   == IF far THEN a.e - 3 ELSE b.e
        A   == BShl(a.m, a.e - e)
        B   == IF far THEN <<1>> ELSE b.m
    IN  IF a.s = b.s THEN FRound(a.s, BAdd(A, B), e)
        ELSE IF BCmp(A, B) = 0 THEN FZero(0)
        ELSE FRound(a.s, BSub(A, B), e)

FAdd(a, b) ==
    IF IsNaN(a) \/ IsNaN(b) THEN FNaN
    ELSE IF IsInf(a) THEN (IF IsInf(b) /\ a.s # b.s THEN FNaN ELSE a)
    ELSE IF IsInf(b) THEN b
    ELSE IF IsZero(a) /\ IsZero(b) THEN FZero(IF a.s = 1 /\ b.s = 1 THEN 1 ELSE 0)
    ELSE IF IsZero(a) THEN b
    ELSE IF IsZero(b) THEN a
    ELSE IF MagCmp(a, b) >= 0 THEN FAddOrdered(a, b)
    ELSE FAddOrdered(b, a)

FSub(a, b) == FAdd(a, FNeg(b))

FMul(a, b) ==
    IF IsNaN(a) \/ IsNaN(b) THEN FNaN
    ELSE IF IsInf(a) \/ IsInf(b)
         THEN (IF IsZero(a) \/ IsZero(b) THEN FNaN ELSE FInf(Xor(a.s, b.s)))
    ELSE FRound(Xor(a.s, b.s), BMul(a.m, b.m), a.e + b.e)

FDivFinite(a, b) ==
    LET sh == Max2(0, MantBits + 3 + BitLen(b.m) - BitLen(a.m))
        qr == BDivMod(BShl(a.m, sh), b.m)
        M  == BAdd(BMulSmall(qr.q, 2), IF Len(qr.r) = 0 THEN <<>> ELSE <<1>>)
    IN  FRound(Xor(a.s, b.s), M, a.e - b.e - sh - 1)

\* a division by zero gives inf or nan (NumPy warns and goes on)
FDiv(a, b) ==
    IF IsNaN(a) \/ IsNaN(b) THEN FNaN
    ELSE IF IsInf(a) THEN (IF IsInf(b) THEN FNaN ELSE FInf(Xor(a.s, b.s)))
    ELSE IF IsInf(b) THEN FZero(Xor(a.s, b.s))
    ELSE IF IsZero(b) THEN (IF IsZero(a) THEN FNaN ELSE FInf(Xor(a.s, b.s)))
    ELSE IF IsZero(a) THEN FZero(Xor(a.s, b.s))
    ELSE FDivFinite(a, b)

\* a < b; false when either is nan
FLt(a, b) ==
    /\ ~IsNaN(a)
    /\ ~IsNaN(b)
    /\ IF IsZero(a) /\ IsZero(b) THEN FALSE
       ELSE IF a.s # b.s THEN a.s = 1
       ELSE IF a.s = 0 THEN MagCmp(a, b) < 0
       ELSE MagCmp(a, b) > 0

\* a == b; nan equals nothing, -0.0 equals 0.0
FEq(a, b) ==
    /\ ~IsNaN(a)
    /\ ~IsNaN(b)
    /\ \/ IsZero(a) /\ IsZero(b)
       \/ a = b

\* pow(3.0, k) for an integer k >= 0, taken as correctly rounded (it is exact up
\* to 3^33; beyond, the C library may be one unit in the last place off)
FPow3(k) == FRound(0, BPow(3, k), 0)

(***************************************************************************)
(* NumPy arrays are sequences; the source's index i is position i + 1.     *)
(***************************************************************************)
At(a, i) == a[i + 1]

SetItem(a, i, v) == [a EXCEPT ![i + 1] = v]

InRange(a, i) == i >= 0 /\ i < Len(a)

F0 == FZero(0)

F1 == FromInt(1)

\* 1./3, 5./6, 1./6, 5./3, 4./9: a quotient of two literals is computed once,
\* when the function is compiled, and kept with the function's code
VARIABLE consts

Folded ==
    [third |-> FDiv(FromInt(1), FromInt(3)),
     p1 |-> FDiv(FromInt(5), FromInt(6)),
     p2 |-> FDiv(FromInt(1), FromInt(6)),
     q1 |-> FDiv(FromInt(5), FromInt(3)),
     q2 |-> FDiv(FromInt(4), FromInt(9))]

\* (variant: 1/3 between integers, rounded down)
ThirdFloor == F0

Third == consts.third

P1 == consts.p1

P2 == consts.p2

Q1 == consts.q1

Q2 == consts.q2

\* np.zeros(k), for k >= 0
NpZeros(k) == SubSeq([i \in 1..k |-> F0], 1, k)

\* np.arange(k): empty when k <= 0
Arange(k) == SubSeq([i \in 1..k |-> i - 1], 1, Max2(k, 0))

\* int64 arithmetic: NumPy keeps every product to its low 64 bits and reads
\* the bit pattern as a two's-complement number
\* a mod 2^64
Low64(a) == BSub(a, BShl(BShr(a, 64), 64))

MulWrap(a, b) == Low64(BMul(a, b))

\* (variant: the pattern read as an unsigned number)
Unsigned64(u) == [s |-> 0, m |-> u]

\* the 64-bit pattern u read as a signed number
Signed64(u) ==
    IF Bit(u, 63) = 1 THEN [s |-> 1, m |-> BSub(BShl(<<1>>, 64), u)]
    ELSE [s |-> 0, m |-> u]

\* 1/x for an integer x: x is converted to float64, then divided
RecipInt(x) == FDiv(F1, FRound(x.s, x.m, 0))

\* (variant: 1/3**n, the power taken on the int64 array)
PowRecipInt(ix) ==
    SubSeq([i \in 1..Len(ix) |-> RecipInt(Signed64(Low64(BPow(3, ix[i]))))], 1, Len(ix))

\* 1/3.**n for an integer array n
PowRecip(ix) == SubSeq([i \in 1..Len(ix) |-> FDiv(F1, FPow3(ix[i]))], 1, Len(ix))

ReferenceSequence(k) == PowRecip(Arange(k + 1))

\* the right-hand sides of the two recursion relations
\* (variant: the two earlier elements taken in the other order)
PrecBodySwapped(a, i) == FSub(FMul(P1, At(a, i - 2)), FMul(P2, At(a, i - 1)))

PrecBody(a, i) == FSub(FMul(P1, At(a, i - 1)), FMul(P2, At(a, i - 2)))

\* (variant: qrec written with the coefficients of prec)
QrecBodyStable(a, i) == FSub(FMul(P1, At(a, i - 1)), FMul(P2, At(a, i - 2)))

QrecBody(a, i) == FSub(FMul(Q1, At(a, i - 1)), FMul(Q2, At(a, i - 2)))

\* NumPy's broadcasting of two one-dimensional arrays
\* (variant: no broadcasting, the lengths must agree)
BroadcastOkStrict(la, lb) == la = lb

BroadcastOk(la, lb) == la = lb \/ la = 1 \/ lb = 1

BroadcastLen(la, lb) == IF la = 1 THEN lb ELSE la

BAt(a, i) == IF Len(a) = 1 THEN a[1] ELSE a[i]

NpDivide(a, b) ==
    LET k == BroadcastLen(Len(a), Len(b))
    IN  SubSeq([i \in 1..k |-> FDiv(BAt(a, i), BAt(b, i))], 1, k)

\* 1 - a
OneMinus(a) == SubSeq([i \in 1..Len(a) |-> FSub(F1, a[i])], 1, Len(a))

\* (variant: the absolute value left out)
NpAbsId(a) == a

NpAbs(a) == SubSeq([i \in 1..Len(a) |-> FAbs(a[i])], 1, Len(a))

(***************************************************************************)
(* Exact arithmetic: a rational is <<numerator, denominator>> in lowest     *)
(* terms with a positive denominator.                                      *)
(***************************************************************************)
RECURSIVE Gcd(_, _)
Gcd(x, y) == IF y = 0 THEN x ELSE Gcd(y, x % y)

IAbs(x) == IF x < 0 THEN 0 - x ELSE x

RNorm(x, y) ==
    LET g == Gcd(IAbs(x), IAbs(y))
    IN  IF y < 0 THEN <<(0 - x) \div g, (0 - y) \div g>> ELSE <<x \div g, y \div g>>

RMul(a, b) ==
    LET g1 == Gcd(IAbs(a[1]), b[2])
        g2 == Gcd(IAbs(b[1]), a[2])
    IN  RNorm((a[1] \div g1) * (b[1] \div g2), (a[2] \div g2) * (b[2] \div g1))

RSub(a, b) ==
    LET g == Gcd(a[2], b[2])
    IN  RNorm(a[1] * (b[2] \div g) - b[1] * (a[2] \div g), (a[2] \div g) * b[2])

RDiv(a, b) == RMul(a, IF b[1] < 0 THEN <<0 - b[2], 0 - b[1]>> ELSE <<b[2], b[1]>>)

RAbs(a) == <<IAbs(a[1]), a[2]>>

RAdd(a, b) == RSub(a, <<0 - b[1], b[2]>>)

\* p_0 = 1, p_1 = 1/3 (and the same for q)
MathStart == <<RNorm(1, 1), RNorm(1, 3)>>

\* (variant: p_n continued with the coefficients of q_n)
MathPNextGrowing(s) == RSub(RMul(RNorm(5, 3), s[Len(s)]), RMul(RNorm(4, 9), s[Len(s) - 1]))

\* p_n = 5/6 p_{n-1} - 1/6 p_{n-2} for the sequence s = p_0 .. p_{n-1}
MathPNext(s) == RSub(RMul(RNorm(5, 6), s[Len(s)]), RMul(RNorm(1, 6), s[Len(s) - 1]))

\* (variant: q_n continued with the coefficients of p_n)
MathQNextDamped(s) == RSub(RMul(RNorm(5, 6), s[Len(s)]), RMul(RNorm(1, 6), s[Len(s) - 1]))

\* (variant: the second coefficient of q_n taken as 5/9)
MathQNextSlip(s) == RSub(RMul(RNorm(5, 3), s[Len(s)]), RMul(RNorm(5, 9), s[Len(s) - 1]))

\* q_n = 5/3 q_{n-1} - 4/9 q_{n-2}
MathQNext(s) == RSub(RMul(RNorm(5, 3), s[Len(s)]), RMul(RNorm(4, 9), s[Len(s) - 1]))

(***************************************************************************)
(* The notebook as a state machine.  The kernel runs one cell at a time;   *)
(* a cell is an expression or a list of statements, and a call of prec or  *)
(* qrec runs line by line.                                                 *)
(***************************************************************************)
\* bounds of the arguments the cells are run with
MaxN == 5

MaxMath == 12

DetMaxN == 2

DetMaxLen == 1

MaxExp == 648

MaxDamp == 8

MaxSmall == 4

MaxNeg == 2

MaxLen == 3

\* N=40
N == 40

VARIABLES
    pc,         \* "idle", the line the running call or expression is at, or
                \* "done" while the cell's outcome is shown
    stmt,       \* 0, or the statement of the error cell that is running
    op,         \* the operation running or last run
    n,          \* prec, qrec: the parameter n
    loc,        \* prec, qrec: the local array p (q)
    j,          \* prec, qrec: the loop variable j
    computed,   \* the operands of np.abs(1 - computed/reference)
    reference,
    tmp,        \* the intermediate array of that expression
    res,        \* how the last operation ended: a value or an exception
    defined,    \* the notebook's global names that are bound
    p, q, idx, expected, perr, qerr,  \* the globals (idx is the global n)
    memo,       \* an operation that ended earlier, remembered with its outcome
    math,       \* the sequences p_n and q_n of the text, in exact arithmetic
    ipow,       \* the integer power 3**n[k] being computed, and its outcome
    ref,        \* the array object each name is bound to (0: none)
    writes      \* prec, qrec: the indices the running call has stored to, in order

vars == <<pc, stmt, op, n, loc, j, computed, reference, tmp, res, defined,
          p, q, idx, expected, perr, qerr, memo, math, consts, ipow, ref, writes>>

aside == <<memo, math, consts, ipow>>

notebook == <<pc, stmt, op, n, loc, j, computed, reference, tmp, res, defined,
              p, q, idx, expected, perr, qerr, ref, writes>>

NoPow == [pc |-> "idle", k |-> 0, b |-> 0, temp |-> <<>>, ix |-> <<>>,
          val |-> [s |-> 0, m |-> <<>>], recip |-> FZero(0)]

frame == <<n, loc, j, writes>>

operands == <<computed, reference, tmp>>

globals == <<defined, p, q, idx, expected, perr, qerr>>

NoResult == [kind |-> "none", val |-> <<>>]

Value(v) == [kind |-> "value", val |-> v]

Raised(x) == [kind |-> x, val |-> <<>>]

NoMemo == [op |-> "none", n |-> 0, computed |-> <<>>, reference |-> <<>>,
           res |-> NoResult]

\* no name is bound to an array
NoRefs == [loc |-> 0, computed |-> 0, reference |-> 0, tmp |-> 0, res |-> 0,
           p |-> 0, q |-> 0, idx |-> 0, expected |-> 0, perr |-> 0, qerr |-> 0]

Live(r) == {r[f] : f \in DOMAIN r} \ {0}

\* (variant: every array is made in one shared buffer)
FreshReused(r) == 1

\* a newly made array is an object apart from every array a name is bound to
Fresh(r) ==
    CHOOSE i \in 1..(Cardinality(DOMAIN r) + 1) :
        /\ i \notin Live(r)
        /\ \A k \in 1..(i - 1) : k \in Live(r)

\* Objects are told apart, not numbered, by the program: the objects in use
\* are numbered 1, 2, ... in the order of the names bound to them.
Names == <<"p", "q", "idx", "expected", "perr", "qerr",
           "loc", "computed", "reference", "tmp", "res">>

First(r, i) ==
    CHOOSE k \in 1..i :
        /\ r[Names[k]] = r[Names[i]]
        /\ \A h \in 1..(k - 1) : r[Names[h]] # r[Names[i]]

Canon(r) ==
    [f \in DOMAIN r |->
        LET i == CHOOSE k \in 1..Len(Names) : Names[k] = f
        IN  IF r[f] = 0 THEN 0
            ELSE Cardinality({First(r, k) :
                                k \in {h \in 1..First(r, i) : r[Names[h]] # 0}})]

\* the names of a call or expression that has ended are unbound
Dropped(r) == [r EXCEPT !.loc = 0, !.computed = 0, !.reference = 0, !.tmp = 0, !.res = 0]

Args == (0 - MaxNeg)..MaxN

RECURSIVE SeqsUpTo(_, _)
SeqsUpTo(S, k) ==
    IF k = 0 THEN {<<>>}
    ELSE LET T == SeqsUpTo(S, k - 1)
         IN  T \cup {Append(t, x) : t \in {u \in T : Len(u) = k - 1}, x \in S}

\* element values the operands of the error expression are drawn from
ComputedPool == {F0, F1}

ReferencePool == {F0, Third}

Init ==
    /\ pc = "idle"
    /\ stmt = 0
    /\ op = "none"
    /\ n = 0
    /\ loc = <<>>
    /\ j = 0
    /\ computed = <<>>
    /\ reference = <<>>
    /\ tmp = <<>>
    /\ res = NoResult
    /\ defined = {}
    /\ p = <<>>
    /\ q = <<>>
    /\ idx = <<>>
    /\ expected = <<>>
    /\ perr = <<>>
    /\ qerr = <<>>
    /\ memo = NoMemo
    /\ math = [p |-> <<>>, q |-> <<>>]
    /\ consts = Folded
    /\ ipow = NoPow
    /\ ref = NoRefs
    /\ writes = <<>>

\* entering prec(k) or qrec(k)
Enter(f, k) ==
    /\ pc' = "zeros"
    /\ op' = f
    /\ n' = k
    /\ loc' = <<>>
    /\ j' = 0
    /\ writes' = <<>>
    /\ res' = NoResult
    /\ computed' = <<>>
    /\ reference' = <<>>
    /\ tmp' = <<>>
    /\ ref' = Canon(Dropped(ref))

\* an exception ends the call and the cell
Raise(x) ==
    /\ pc' = "done"
    /\ stmt' = 0
    /\ res' = Raised(x)

\* a cell holding the expression prec(k) or qrec(k)
CallCell(f, k) ==
    /\ pc = "idle"
    /\ stmt = 0
    /\ Enter(f, k)
    /\ UNCHANGED <<stmt, globals>>
    /\ UNCHANGED aside

\* a name bound to the array the call stores into sees the stored elements
Through(x, f) == IF ref'[f] # 0 /\ ref'[f] = ref'.loc THEN loc' ELSE x

\* what a store into the local array leaves of the other names
Stored ==
    /\ computed' = Through(computed, "computed")
    /\ reference' = Through(reference, "reference")
    /\ tmp' = Through(tmp, "tmp")
    /\ p' = Through(p, "p")
    /\ q' = Through(q, "q")
    /\ idx' = Through(idx, "idx")
    /\ expected' = Through(expected, "expected")
    /\ perr' = Through(perr, "perr")
    /\ qerr' = Through(qerr, "qerr")
    /\ UNCHANGED defined

\* (variant: a negative length taken as 0)
ZerosLineClamp ==
    /\ pc = "zeros"
    /\ loc' = NpZeros(Max2(n + 1, 0))
    /\ pc' = "set0"
    /\ ref' = Canon([ref EXCEPT !.loc = Fresh(ref)])
    /\ UNCHANGED <<stmt, op, n, j, writes, res>>
    /\ Stored
    /\ UNCHANGED aside

\* p = np.zeros(n+1)
ZerosLine ==
    /\ pc = "zeros"
    /\ IF n + 1 < 0
       THEN Raise("ValueError") /\ UNCHANGED <<op, frame, ref>>
       ELSE /\ loc' = NpZeros(n + 1)
            /\ pc' = "set0"
            /\ ref' = Canon([ref EXCEPT !.loc = Fresh(ref)])
            /\ UNCHANGED <<stmt, op, n, j, writes, res>>
    /\ Stored
    /\ UNCHANGED aside

\* p[0] = 1
Set0Line ==
    /\ pc = "set0"
    /\ IF ~InRange(loc, 0)
       THEN Raise("IndexError") /\ UNCHANGED <<op, frame>>
       ELSE /\ loc' = SetItem(loc, 0, F1)
            /\ writes' = Append(writes, 0)
            /\ pc' = "set1"
            /\ UNCHANGED <<stmt, op, n, j, res>>
    /\ UNCHANGED ref
    /\ Stored
    /\ UNCHANGED aside

\* p[1] = 1./3
Set1Line ==
    /\ pc = "set1"
    /\ IF ~InRange(loc, 1)
       THEN Raise("IndexError") /\ UNCHANGED <<op, frame>>
       ELSE /\ loc' = SetItem(loc, 1, Third)
            /\ writes' = Append(writes, 1)
            /\ pc' = "for"
            /\ j' = 1
            /\ UNCHANGED <<stmt, op, n, res>>
    /\ UNCHANGED ref
    /\ Stored
    /\ UNCHANGED aside

\* (variant: for j in range(2,n))
ForLineShort ==
    /\ pc = "for"
    /\ IF j + 1 < n
       THEN j' = j + 1 /\ pc' = "body"
       ELSE j' = j /\ pc' = "return"
    /\ UNCHANGED <<stmt, op, n, loc, writes, res, operands, globals, ref>>
    /\ UNCHANGED aside

\* for j in range(2,n+1): the next j, or the end of the loop
ForLine ==
    /\ pc = "for"
    /\ IF j + 1 < n + 1
       THEN j' = j + 1 /\ pc' = "body"
       ELSE j' = j /\ pc' = "return"
    /\ UNCHANGED <<stmt, op, n, loc, writes, res, operands, globals, ref>>
    /\ UNCHANGED aside

\* (variant: the result stored one element back, p[j-1] = ...)
BodyLineBack ==
    /\ pc = "body"
    /\ loc' = SetItem(loc, j - 1, IF op = "prec" THEN PrecBody(loc, j) ELSE QrecBody(loc, j))
    /\ writes' = Append(writes, j - 1)
    /\ pc' = "for"
    /\ UNCHANGED <<stmt, op, n, j, res, ref>>
    /\ Stored
    /\ UNCHANGED aside

\* p[j] = 5./6*p[j-1] - 1./6*p[j-2]     q[j] = 5./3*q[j-1] - 4./9*q[j-2]
BodyLine ==
    /\ pc = "body"
    /\ loc' = SetItem(loc, j, IF op = "prec" THEN PrecBody(loc, j) ELSE QrecBody(loc, j))
    /\ writes' = Append(writes, j)
    /\ pc' = "for"
    /\ UNCHANGED <<stmt, op, n, j, res, ref>>
    /\ Stored
    /\ UNCHANGED aside

\* (variant: qrec ending with prec's "return p", which reads the notebook's p)
ReturnLineStale ==
    /\ pc = "return"
    /\ pc' = IF stmt = 0 THEN "done" ELSE "idle"
    /\ res' = IF op = "qrec"
              THEN IF "p" \in defined THEN Value(p) ELSE Raised("NameError")
              ELSE Value(loc)
    /\ IF stmt = 1
       THEN /\ p' = loc
            /\ ref' = Canon([ref EXCEPT !.res = ref.loc, !.p = ref.loc])
            /\ defined' = defined \cup {"p"}
            /\ stmt' = 2
            /\ UNCHANGED <<q, idx, expected, perr, qerr>>
       ELSE IF stmt = 2
       THEN /\ q' = p
            /\ ref' = Canon([ref EXCEPT !.res = ref.p, !.q = ref.p])
            /\ defined' = defined \cup {"q"}
            /\ stmt' = 3
            /\ UNCHANGED <<p, idx, expected, perr, qerr>>
       ELSE /\ ref' = Canon([ref EXCEPT !.res = IF op = "qrec" THEN ref.p ELSE ref.loc])
            /\ UNCHANGED <<stmt, globals>>
    /\ UNCHANGED <<op, frame, operands>>
    /\ UNCHANGED aside

\* return p: to the cell's output, or to p = prec(N), q = qrec(N) of the error cell
ReturnLine ==
    /\ pc = "return"
    /\ pc' = IF stmt = 0 THEN "done" ELSE "idle"
    /\ res' = Value(loc)
    /\ IF stmt = 1
       THEN /\ p' = loc
            /\ ref' = Canon([ref EXCEPT !.res = ref.loc, !.p = ref.loc])
            /\ defined' = defined \cup {"p"}
            /\ stmt' = 2
            /\ UNCHANGED <<q, idx, expected, perr, qerr>>
       ELSE IF stmt = 2
       THEN /\ q' = loc
            /\ ref' = Canon([ref EXCEPT !.res = ref.loc, !.q = ref.loc])
            /\ defined' = defined \cup {"q"}
            /\ stmt' = 3
            /\ UNCHANGED <<p, idx, expected, perr, qerr>>
       ELSE /\ ref' = Canon([ref EXCEPT !.res = ref.loc])
            /\ UNCHANGED <<stmt, globals>>
    /\ UNCHANGED <<op, frame, operands>>
    /\ UNCHANGED aside

\* a cell holding the expression 1/3.**np.arange(k+1)
ReferenceCell(k) ==
    /\ pc = "idle"
    /\ stmt = 0
    /\ op' = "reference"
    /\ n' = k
    /\ res' = Value(ReferenceSequence(k))
    /\ ref' = Canon([ref EXCEPT !.res = Fresh(ref)])
    /\ pc' = "done"
    /\ UNCHANGED <<stmt, loc, j, writes, operands, globals>>
    /\ UNCHANGED aside

\* entering np.abs(1 - c/r)
Evaluate(c, r) ==
    /\ pc' = "divide"
    /\ op' = "error"
    /\ computed' = c
    /\ reference' = r
    /\ tmp' = <<>>
    /\ res' = NoResult
    /\ n' = 0
    /\ loc' = <<>>
    /\ j' = 0
    /\ writes' = <<>>

\* a cell holding the expression np.abs(1 - c/r), c and r written out in the cell
ErrorCell(c, r) ==
    /\ pc = "idle"
    /\ stmt = 0
    /\ Evaluate(c, r)
    /\ LET d == Dropped(ref)
           rc == Fresh(d)
       IN  ref' = Canon([d EXCEPT !.computed = rc,
                                  !.reference = Fresh([d EXCEPT !.computed = rc])])
    /\ UNCHANGED <<stmt, globals>>
    /\ UNCHANGED aside

\* (variant: the division of Python's own floats, which raises on a zero divisor)
DivideStepPython ==
    /\ pc = "divide"
    /\ IF ~BroadcastOk(Len(computed), Len(reference))
       THEN Raise("ValueError") /\ UNCHANGED <<tmp, ref>>
       ELSE IF \E i \in 1..Len(reference) : IsZero(reference[i])
       THEN Raise("ZeroDivisionError") /\ UNCHANGED <<tmp, ref>>
       ELSE /\ tmp' = NpDivide(computed, reference)
            /\ ref' = Canon([ref EXCEPT !.tmp = Fresh(ref)])
            /\ pc' = "subtract"
            /\ UNCHANGED <<stmt, res>>
    /\ UNCHANGED <<op, frame, computed, reference, globals>>
    /\ UNCHANGED aside

\* computed/reference
DivideStep ==
    /\ pc = "divide"
    /\ IF ~BroadcastOk(Len(computed), Len(reference))
       THEN Raise("ValueError") /\ UNCHANGED <<tmp, ref>>
       ELSE /\ tmp' = NpDivide(computed, reference)
            /\ ref' = Canon([ref EXCEPT !.tmp = Fresh(ref)])
            /\ pc' = "subtract"
            /\ UNCHANGED <<stmt, res>>
    /\ UNCHANGED <<op, frame, computed, reference, globals>>
    /\ UNCHANGED aside

\* 1 - ...
SubtractStep ==
    /\ pc = "subtract"
    /\ tmp' = OneMinus(tmp)
    /\ ref' = Canon([ref EXCEPT !.tmp = Fresh(ref)])
    /\ pc' = "abs"
    /\ UNCHANGED <<stmt, op, frame, computed, reference, res, globals>>
    /\ UNCHANGED aside

\* np.abs(...): to the cell's output, or to perr, qerr of the error cell
AbsStep ==
    /\ pc = "abs"
    /\ pc' = IF stmt = 5 THEN "idle" ELSE "done"
    /\ res' = Value(NpAbs(tmp))
    /\ IF stmt = 5
       THEN /\ perr' = NpAbs(tmp)
            /\ ref' = Canon([ref EXCEPT !.res = Fresh(ref), !.perr = Fresh(ref)])
            /\ defined' = defined \cup {"perr"}
            /\ stmt' = 6
            /\ UNCHANGED <<p, q, idx, expected, qerr>>
       ELSE IF stmt = 6
       THEN /\ qerr' = NpAbs(tmp)
            /\ ref' = Canon([ref EXCEPT !.res = Fresh(ref), !.qerr = Fresh(ref)])
            /\ defined' = defined \cup {"qerr"}
            /\ stmt' = 0
            /\ UNCHANGED <<p, q, idx, expected, perr>>
       ELSE /\ ref' = Canon([ref EXCEPT !.res = Fresh(ref)])
            /\ UNCHANGED <<stmt, globals>>
    /\ UNCHANGED <<op, frame, computed, reference, tmp>>
    /\ UNCHANGED aside

\* the outcome has been shown; the kernel takes the next cell
Prompt ==
    /\ pc = "done"
    /\ pc' = "idle"
    /\ op' = "none"
    /\ n' = 0
    /\ loc' = <<>>
    /\ j' = 0
    /\ computed' = <<>>
    /\ reference' = <<>>
    /\ tmp' = <<>>
    /\ res' = NoResult
    /\ writes' = <<>>
    /\ ref' = Canon(Dropped(ref))
    /\ UNCHANGED <<stmt, globals>>
    /\ UNCHANGED aside

\* the error cell: N=40; p = prec(N)
CellP ==
    /\ pc = "idle"
    /\ stmt = 0
    /\ stmt' = 1
    /\ Enter("prec", N)
    /\ UNCHANGED globals
    /\ UNCHANGED aside

\* q = qrec(N)
CellQ ==
    /\ pc = "idle"
    /\ stmt = 2
    /\ Enter("qrec", N)
    /\ UNCHANGED <<stmt, globals>>
    /\ UNCHANGED aside

\* n = np.arange(N+1)
CellArange ==
    /\ pc = "idle"
    /\ stmt = 3
    /\ stmt' = 4
    /\ idx' = Arange(N + 1)
    /\ ref' = Canon([ref EXCEPT !.idx = Fresh(ref)])
    /\ defined' = defined \cup {"n"}
    /\ UNCHANGED <<pc, op, frame, operands, res, p, q, expected, perr, qerr>>
    /\ UNCHANGED aside

\* expected = 1/3.**n
CellExpected ==
    /\ pc = "idle"
    /\ stmt = 4
    /\ stmt' = 5
    /\ expected' = PowRecip(idx)
    /\ ref' = Canon([ref EXCEPT !.expected = Fresh(ref)])
    /\ defined' = defined \cup {"expected"}
    /\ UNCHANGED <<pc, op, frame, operands, res, p, q, idx, perr, qerr>>
    /\ UNCHANGED aside

\* perr = np.abs(1-p/expected)
CellPerr ==
    /\ pc = "idle"
    /\ stmt = 5
    /\ Evaluate(p, expected)
    /\ ref' = Canon([Dropped(ref) EXCEPT !.computed = ref.p, !.reference = ref.expected])
    /\ UNCHANGED <<stmt, globals>>
    /\ UNCHANGED aside

\* qerr = np.abs(1-q/expected)
CellQerr ==
    /\ pc = "idle"
    /\ stmt = 6
    /\ Evaluate(q, expected)
    /\ ref' = Canon([Dropped(ref) EXCEPT !.computed = ref.q, !.reference = ref.expected])
    /\ UNCHANGED <<stmt, globals>>
    /\ UNCHANGED aside



ComputedSeqs == SeqsUpTo(ComputedPool, MaxLen)

ReferenceSeqs == SeqsUpTo(ReferencePool, MaxLen)

\* the lines of a running call
Lines ==
    \/ ZerosLine
    \/ Set0Line
    \/ Set1Line
    \/ ForLine
    \/ BodyLine
    \/ ReturnLine

\* the lines of a running call, the steps of a running expression, the
\* statements of the error cell
Run ==
    \/ Lines
    \/ DivideStep
    \/ SubtractStep
    \/ AbsStep
    \/ CellP
    \/ CellQ
    \/ CellArange
    \/ CellExpected
    \/ CellPerr
    \/ CellQerr
    \/ Prompt

Next ==
    \/ \E f \in {"prec", "qrec"}, k \in Args : CallCell(f, k)
    \/ \E k \in Args : ReferenceCell(k)
    \/ \E c \in ComputedSeqs, r \in ReferenceSeqs : ErrorCell(c, r)
    \/ Run

Spec == Init /\ [][Next]_vars

(***************************************************************************)
(* The same notebook with one ended operation remembered, to compare a     *)
(* later operation on the same input with it.                              *)
(***************************************************************************)
Snapshot ==
    [op |-> op, n |-> n, computed |-> computed, reference |-> reference, res |-> res]

\* remembered before the error cell has defined anything
Remember ==
    /\ op # "none"
    /\ pc \in {"idle", "done"}
    /\ defined = {}
    /\ memo # Snapshot
    /\ memo' = Snapshot
    /\ UNCHANGED <<pc, stmt, op, frame, operands, res, globals, math, consts, ipow, ref>>

\* the arguments: -1 and 0 raise, the others return
DetArgs == (0 - 1)..DetMaxN

DetComputedSeqs == SeqsUpTo({F1}, DetMaxLen)

DetReferenceSeqs == SeqsUpTo(ReferencePool, DetMaxLen)

NextDet ==
    \/ \E f \in {"prec", "qrec"}, k \in DetArgs : CallCell(f, k)
    \/ \E k \in DetArgs : ReferenceCell(k)
    \/ \E c \in DetComputedSeqs, r \in DetReferenceSeqs : ErrorCell(c, r)
    \/ Run
    \/ Remember

SpecDet == Init /\ [][NextDet]_vars

(***************************************************************************)
(* The small tests prec(4), qrec(4): only calls with a small argument, one *)
(* ended call remembered.                                                  *)
(***************************************************************************)
NextSmall ==
    \/ \E f \in {"prec", "qrec"}, k \in 1..MaxSmall : CallCell(f, k)
    \/ Lines
    \/ Prompt
    \/ Remember

SpecSmall == Init /\ [][NextSmall]_vars

LinePcs == {"zeros", "set0", "set1", "for", "body", "return"}

\* a call is running: exactly then one of its lines can be executed
Running == op \in {"prec", "qrec"} /\ pc \in LinePcs

\* a running call moves to another line or ends; its steps are those of Lines
Advance == Running /\ pc' \in (LinePcs \cup {"idle", "done"}) \ {pc}

\* the interpreter goes on executing the lines of a call that is running
SpecCall == Init /\ [][NextSmall]_vars /\ WF_pc(Advance)

(***************************************************************************)
(* Single elements of 1/3.**n, for exponents up to MaxExp.                 *)
(***************************************************************************)
\* the element of 1/3.**n at n[i] = k
ReferenceElem(k) ==
    /\ pc = "idle"
    /\ stmt = 0
    /\ op' = "element"
    /\ n' = k
    /\ res' = Value(PowRecip(<<k>>))
    /\ ref' = Canon([ref EXCEPT !.res = Fresh(ref)])
    /\ pc' = "done"
    /\ UNCHANGED <<stmt, loc, j, writes, operands, globals>>
    /\ UNCHANGED aside

NextElem ==
    \/ \E k \in 0..MaxExp : ReferenceElem(k)
    \/ Prompt

SpecElem == Init /\ [][NextElem]_vars

(***************************************************************************)
(* The aside on integers: 3**n[k] on the int64 array n = np.arange(N+1),   *)
(* 1/3**n, and Python's own 3**N.  NumPy raises an int64 to an integer     *)
(* power by squaring, every product kept to its low 64 bits; the bit       *)
(* pattern is read as a two's-complement number.                           *)
(***************************************************************************)
\* a cell holding 3**n[k]: temp = 3, ix = 3 if k is odd else 1, k >>= 1
PowCell(k) ==
    /\ ipow.pc = "idle"
    /\ ipow' = [ipow EXCEPT !.pc = "loop", !.k = k, !.b = k \div 2, !.temp = <<3>>,
                            !.ix = IF k % 2 = 1 THEN <<3>> ELSE <<1>>]
    /\ UNCHANGED <<notebook, memo, math, consts>>

\* while b > 0: temp *= temp; if b & 1: ix *= temp; b >>= 1
PowLoop ==
    /\ ipow.pc = "loop"
    /\ ipow.b > 0
    /\ LET t == MulWrap(ipow.temp, ipow.temp)
       IN  ipow' = [ipow EXCEPT !.temp = t, !.b = ipow.b \div 2,
                                !.ix = IF ipow.b % 2 = 1 THEN MulWrap(ipow.ix, t)
                                       ELSE ipow.ix]
    /\ UNCHANGED <<notebook, memo, math, consts>>

\* the element 3**n[k]
PowEnd ==
    /\ ipow.pc = "loop"
    /\ ipow.b = 0
    /\ ipow' = [ipow EXCEPT !.pc = "value", !.val = Signed64(ipow.ix)]
    /\ UNCHANGED <<notebook, memo, math, consts>>

\* the element of 1/3**n
RecipStep ==
    /\ ipow.pc = "value"
    /\ ipow' = [ipow EXCEPT !.pc = "done", !.recip = RecipInt(ipow.val)]
    /\ UNCHANGED <<notebook, memo, math, consts>>

\* a cell holding 3**N, on Python's unbounded integers
PyPowCell ==
    /\ ipow.pc = "idle"
    /\ ipow' = [ipow EXCEPT !.pc = "python", !.k = N, !.val = [s |-> 0, m |-> BPow(3, N)]]
    /\ UNCHANGED <<notebook, memo, math, consts>>

NextInt ==
    \/ \E k \in 0..N : PowCell(k)
    \/ PowLoop
    \/ PowEnd
    \/ RecipStep
    \/ PyPowCell

SpecInt == Init /\ [][NextInt]_vars

(***************************************************************************)
(* The two recursion relations of the text in exact arithmetic.            *)
(***************************************************************************)
InitMath ==
    /\ pc = "idle"
    /\ stmt = 0
    /\ op = "none"
    /\ n = 0
    /\ loc = <<>>
    /\ j = 0
    /\ computed = <<>>
    /\ reference = <<>>
    /\ tmp = <<>>
    /\ res = NoResult
    /\ defined = {}
    /\ p = <<>>
    /\ q = <<>>
    /\ idx = <<>>
    /\ expected = <<>>
    /\ perr = <<>>
    /\ qerr = <<>>
    /\ memo = NoMemo
    /\ math = [p |-> MathStart, q |-> MathStart]
    /\ consts = Folded
    /\ ipow = NoPow
    /\ ref = NoRefs
    /\ writes = <<>>

MathP ==
    /\ Len(math.p) <= MaxMath
    /\ math' = [math EXCEPT !.p = Append(math.p, MathPNext(math.p))]
    /\ UNCHANGED <<pc, stmt, op, frame, operands, res, globals, memo, consts, ipow, ref>>

MathQ ==
    /\ Len(math.q) <= MaxMath
    /\ math' = [math EXCEPT !.q = Append(math.q, MathQNext(math.q))]
    /\ UNCHANGED <<pc, stmt, op, frame, operands, res, globals, memo, consts, ipow, ref>>

NextMath == MathP \/ MathQ

SpecMath == InitMath /\ [][NextMath]_vars

(***************************************************************************)
(* The same recursion formulas with one error d made in one element, as a  *)
(* rounded operation makes: the element at index k is off by d, and the    *)
(* formula is continued from it.                                           *)
(***************************************************************************)
\* the errors made
Deviations == {<<1, 8>>, <<0 - 1, 8>>, <<1, 32>>}

NoDev == [k |-> 0, d |-> <<0, 1>>]

InitDev ==
    /\ pc = "idle"
    /\ stmt = 0
    /\ op = "none"
    /\ n = 0
    /\ loc = <<>>
    /\ j = 0
    /\ computed = <<>>
    /\ reference = <<>>
    /\ tmp = <<>>
    /\ res = NoResult
    /\ defined = {}
    /\ p = <<>>
    /\ q = <<>>
    /\ idx = <<>>
    /\ expected = <<>>
    /\ perr = <<>>
    /\ qerr = <<>>
    /\ memo = NoMemo
    /\ math = [p |-> MathStart, q |-> MathStart, dev |-> NoDev]
    /\ consts = Folded
    /\ ipow = NoPow
    /\ ref = NoRefs
    /\ writes = <<>>

\* the last element of q is off by d
DeviateQ(d) ==
    /\ math.dev.k = 0
    /\ math' = [math EXCEPT !.q[Len(math.q)] = RAdd(@, d),
                            !.dev = [k |-> Len(math.q) - 1, d |-> d]]
    /\ UNCHANGED <<notebook, memo, consts, ipow>>

NextDevQ ==
    \/ MathQ
    \/ \E d \in Deviations : DeviateQ(d)

SpecDevQ == InitDev /\ [][NextDevQ]_vars

\* the last element of p is off by d
DeviateP(d) ==
    /\ math.dev.k = 0
    /\ math' = [math EXCEPT !.p[Len(math.p)] = RAdd(@, d),
                            !.dev = [k |-> Len(math.p) - 1, d |-> d]]
    /\ UNCHANGED <<notebook, memo, consts, ipow>>

\* (the denominators of p grow as 6^n: fewer elements than in SpecMath)
NextDevP ==
    \/ Len(math.p) <= MaxDamp /\ MathP
    \/ \E d \in Deviations : DeviateP(d)

SpecDevP == InitDev /\ [][NextDevP]_vars

(***************************************************************************)
(* Properties.                                                             *)
(***************************************************************************)
\* an operation has ended and res is its outcome
Ended == op # "none" /\ pc \in {"idle", "done"}

IsCall == op \in {"prec", "qrec"}

Returned == Ended /\ res.kind = "value"

SameLength == Len(computed) = Len(reference)

HasZero(a) == \E i \in 1..Len(a) : IsZero(a[i])

\* |1 - c/r| spelled out
FracErr(c, r) == FAbs(FSub(FromInt(1), FDiv(c, r)))

\* C1: for every n >= 0, prec(n) and qrec(n) return n+1 elements, element 0
\* is 1.0 and, when n >= 1, element 1 is 1/3, equal to ReferenceSequence(n)[1].
C1_HeadOfSequence ==
    (Ended /\ IsCall /\ n >= 0) =>
        /\ res.kind = "value"
        /\ Len(res.val) = n + 1
        /\ FEq(At(res.val, 0), FromInt(1))
        /\ n >= 1 => /\ FEq(At(res.val, 1), FDiv(FromInt(1), FromInt(3)))
                     /\ FEq(At(res.val, 1), At(ReferenceSequence(n), 1))

\* C2: in a returned sequence every element from index 2 on is the recursion
\* relation applied to the two elements before it:
\* prec(n)[i] = 5/6*prec(n)[i-1] - 1/6*prec(n)[i-2],
\* qrec(n)[i] = 5/3*qrec(n)[i-1] - 4/9*qrec(n)[i-2].
C2_Recurrence ==
    (Returned /\ IsCall) =>
        \A i \in 2..n :
            At(res.val, i) =
                IF op = "prec"
                THEN FSub(FMul(FDiv(FromInt(5), FromInt(6)), At(res.val, i - 1)),
                          FMul(FDiv(FromInt(1), FromInt(6)), At(res.val, i - 2)))
                ELSE FSub(FMul(FDiv(FromInt(5), FromInt(3)), At(res.val, i - 1)),
                          FMul(FDiv(FromInt(4), FromInt(9)), At(res.val, i - 2)))

C2_Witness == Returned /\ op = "prec" /\ n = MaxN /\ Len(res.val) = MaxN + 1

\* C3: with n = 0, prec, qrec and the reference 1/3.**arange(n+1) each return
\* the one-element sequence [1.0], and no exception is raised.
C3_ZeroBoundary ==
    (Ended /\ op \in {"prec", "qrec", "reference"} /\ n = 0) => res = Value(<<FromInt(1)>>)

\* C4 as claimed: for negative n the call ends in an error raised before any
\* array is allocated; nothing is written and nothing is returned.
C4_RejectedBeforeAllocation ==
    (IsCall /\ n < 0) =>
        /\ pc \in {"zeros", "done"}
        /\ loc = <<>>
        /\ pc = "done" => res.kind \in {"ValueError", "IndexError"}

\* C4 as amended: for negative n the call ends in an exception, writes no
\* element and returns no sequence; for n <= -2 np.zeros raises ValueError and
\* no array exists, for n = -1 np.zeros(0) gives an empty array and the first
\* write p[0] = 1 raises IndexError.
C4_NegativeArgument ==
    (IsCall /\ n < 0) =>
        /\ pc \in {"zeros", "set0", "done"}
        /\ pc = "set0" => n = -1
        /\ loc = <<>>
        /\ res.kind # "value"
        /\ pc = "done" => res = Raised(IF n = -1 THEN "IndexError" ELSE "ValueError")

C4_Witness == pc = "done" /\ op = "qrec" /\ n = -1 /\ res = Raised("IndexError")

\* C5: for operands of equal length with no zero in the reference, the error
\* expression returns a series of that length with error[i] =
\* |1 - computed[i]/reference[i]|, every element non-negative.
C5_ErrorSeries ==
    (Ended /\ op = "error" /\ SameLength /\ ~HasZero(reference)) =>
        /\ res.kind = "value"
        /\ Len(res.val) = Len(computed)
        /\ \A i \in 1..Len(computed) :
              /\ res.val[i] = FracErr(computed[i], reference[i])
              /\ ~IsNaN(res.val[i])
              /\ ~FLt(res.val[i], FZero(0))

C5_Witness ==
    /\ Ended
    /\ op = "error"
    /\ computed = <<FromInt(1), FZero(0)>>
    /\ reference = <<FDiv(FromInt(1), FromInt(3)), FDiv(FromInt(1), FromInt(3))>>
    /\ res = Value(<<FromInt(2), FromInt(1)>>)

\* C6 as claimed: operands of different lengths, one of them of length 1
\* included, end in an error and no series is returned.
C6_LengthMismatchFails ==
    (Ended /\ op = "error" /\ ~SameLength) => res.kind # "value"

\* C6 as amended: operands of different lengths, neither of them 1, end in
\* ValueError at the division, before any element is computed; when exactly
\* one operand has length 1 it is broadcast, and the series has the other
\* operand's length, with error[i] = |1 - c/r| on the broadcast elements.
C6_LengthMismatch ==
    (op = "error" /\ ~SameLength) =>
        IF Len(computed) # 1 /\ Len(reference) # 1
        THEN /\ pc \in {"divide", "done"}
             /\ tmp = <<>>
             /\ pc = "done" => res = Raised("ValueError")
        ELSE Ended =>
                /\ res.kind = "value"
                /\ Len(res.val) = IF Len(computed) = 1 THEN Len(reference)
                                  ELSE Len(computed)
                /\ \A i \in 1..Len(res.val) :
                      res.val[i] =
                          FracErr(IF Len(computed) = 1 THEN computed[1] ELSE computed[i],
                                  IF Len(reference) = 1 THEN reference[1] ELSE reference[i])

C6_Witness ==
    /\ pc = "done"
    /\ op = "error"
    /\ Len(computed) = 2
    /\ Len(reference) = 3
    /\ res = Raised("ValueError")

\* C7 as claimed: operands of equal length with a zero in the reference end in
\* an error and no series is returned.
C7_ZeroReferenceFails ==
    (Ended /\ op = "error" /\ SameLength /\ HasZero(reference)) => res.kind # "value"

\* C7 as amended: for finite operands of equal length with a zero in the
\* reference no exception is raised; a series of that length is returned whose
\* element at a zero reference is +inf when computed[i] is not zero and nan
\* when computed[i] is zero, and |1 - c/r| elsewhere.
C7_ZeroReference ==
    (Ended /\ op = "error" /\ SameLength /\ HasZero(reference)) =>
        /\ res.kind = "value"
        /\ Len(res.val) = Len(computed)
        /\ \A i \in 1..Len(computed) :
              IF ~IsZero(reference[i]) THEN res.val[i] = FracErr(computed[i], reference[i])
              ELSE IF IsZero(computed[i]) THEN IsNaN(res.val[i])
              ELSE res.val[i] = FInf(0)

C7_Witness ==
    /\ Ended
    /\ op = "error"
    /\ computed = <<FromInt(1), FZero(0)>>
    /\ reference = <<FZero(0), FZero(0)>>
    /\ res = Value(<<FInf(0), FNaN>>)

\* C8: in exact arithmetic both recursion relations, started at 1 and 1/3,
\* give s[j] = 1/3^j at every index j; so the two sequences are equal at every
\* index they share, and their fractional error |1 - s[j]/(1/3^j)| is 0.
C8_ExactClosedForm ==
    /\ \A i \in 1..Len(math.p) :
          /\ math.p[i] = <<1, 3^(i - 1)>>
          /\ RAbs(RSub(<<1, 1>>, RDiv(math.p[i], <<1, 3^(i - 1)>>))) = <<0, 1>>
    /\ \A i \in 1..Len(math.q) :
          /\ math.q[i] = <<1, 3^(i - 1)>>
          /\ RAbs(RSub(<<1, 1>>, RDiv(math.q[i], <<1, 3^(i - 1)>>))) = <<0, 1>>
    /\ \A i \in 1..Min2(Len(math.p), Len(math.q)) : math.p[i] = math.q[i]

C8_Witness ==
    /\ Len(math.p) = MaxMath + 1
    /\ Len(math.q) = MaxMath + 1
    /\ math.q[MaxMath + 1] = <<1, 3^MaxMath>>

\* C9: an operation that ends with the same input as an operation that ended
\* earlier ends with the same outcome, the same value or the same exception,
\* whatever was run in between.
C9_Deterministic ==
    (/\ Ended
     /\ memo.op = op
     /\ memo.n = n
     /\ memo.computed = computed
     /\ memo.reference = reference) => memo.res = res

C9_Witness ==
    /\ Ended
    /\ op = "qrec"
    /\ n = DetMaxN
    /\ memo.op = "qrec"
    /\ memo.n = n
    /\ "qerr" \in defined
    /\ res.kind = "value"
    /\ memo.res = res

\* |a - b| < 1e-10, taken as |a - b| * 1e10 < 1
Within(a, b) ==
    FLt(FMul(FAbs(FSub(a, b)), FMul(FromInt(100000), FromInt(100000))), FromInt(1))

\* C11: for a small n (1..MaxSmall, the test's 4 included) the sequence a call
\* returns is within 1e-10 of 1/3.**k at every index, and within 1e-10 at
\* every index of the sequence the other function returned for the same n.
C11_SmallAgreement ==
    (Returned /\ IsCall) =>
        /\ \A i \in 0..n :
              LET r == At(ReferenceSequence(n), i)
              IN  IsFinite(r) /\ Within(At(res.val, i), r)
        /\ (memo.op \in {"prec", "qrec"} /\ memo.op # op /\ memo.n = n
                /\ memo.res.kind = "value") =>
              \A i \in 0..n : Within(At(res.val, i), At(memo.res.val, i))

C11_Witness ==
    /\ Returned
    /\ op = "qrec"
    /\ n = 4
    /\ memo.op = "prec"
    /\ memo.n = 4
    /\ memo.res.kind = "value"
    /\ Len(res.val) = 5
    /\ Len(memo.res.val) = 5

\* the natural number written in decimal, four digits to an element
RECURSIVE BFromDec(_)
BFromDec(d) ==
    IF Len(d) = 0 THEN <<>>
    ELSE BAdd(BMulSmall(BFromDec(SubSeq(d, 1, Len(d) - 1)), 10000), BFromNat(d[Len(d)]))

\* C12: in int64 arithmetic 3**k is exact and positive for k = 0..39 and wraps
\* at k = 40 to -6289078614652622815 = 3^40 - 2^64, the unbounded integer 3^40
\* being 12157665459056928801; so 1/3**n is negative at index 40 and at no
\* other index of 0..40.
C12_Int64Wraps ==
    /\ ipow.pc \in {"value", "done"} =>
          IF ipow.k <= 39
          THEN ipow.val = [s |-> 0, m |-> BPow(3, ipow.k)] /\ ipow.val.m # <<>>
          ELSE /\ ipow.val = [s |-> 1, m |-> BFromDec(<<628, 9078, 6146, 5262, 2815>>)]
               /\ BAdd(ipow.val.m, BPow(3, 40)) = BShl(<<1>>, 64)
    /\ ipow.pc = "done" => (FLt(ipow.recip, FZero(0)) <=> ipow.k = 40)
    /\ ipow.pc = "python" =>
          /\ ipow.val = [s |-> 0, m |-> BFromDec(<<1215, 7665, 4590, 5692, 8801>>)]
          /\ ipow.val.m = BPow(3, 40)

C12_Witness ==
    /\ ipow.pc = "done"
    /\ ipow.k = 40
    /\ ipow.val.s = 1
    /\ ipow.recip.s = 1
    /\ IsFinite(ipow.recip)

\* x * 1e21
Times1e21(x) ==
    FMul(x, FMul(FMul(FromInt(10000000), FromInt(10000000)), FromInt(10000000)))

\* C13 as claimed: every element 1/3.**k, k >= 0, is strictly positive, and
\* the element at k = 40 is near 8.2e-20.
C13_AlwaysPositive ==
    (Ended /\ op = "element") =>
        LET x == At(res.val, 0)
        IN  /\ FLt(FZero(0), x)
            /\ n = 40 => FLt(FromInt(82), Times1e21(x)) /\ FLt(Times1e21(x), FromInt(83))

\* C13 as amended: for 0 <= k <= 646 the element 1/3.**k is finite and
\* strictly positive; for k >= 647 the power 3.**k overflows to inf and the
\* element is exactly 0.0; the element at k = 40 is 8.2e-20 to two digits.
C13_PositiveUntilOverflow ==
    (Ended /\ op = "element") =>
        LET x == At(res.val, 0)
        IN  /\ n <= 646 => IsFinite(x) /\ FLt(FZero(0), x)
            /\ n >= 647 => x = FZero(0)
            /\ n = 40 => FLt(FromInt(82), Times1e21(x)) /\ FLt(Times1e21(x), FromInt(83))

C13_Witness == Ended /\ op = "element" /\ n = 647 /\ res = Value(<<FZero(0)>>)

RLt(a, b) == RSub(a, b)[1] < 0

\* s[i] - 1/3^i, for the index i counted from 0
DevAt(s, i) == RSub(s[i + 1], <<1, 3^i>>)

\* |1 - s[i]/(1/3^i)|
FracAt(s, i) == RAbs(RSub(<<1, 1>>, RDiv(s[i + 1], <<1, 3^i>>)))

\* C14: in exact arithmetic, with q[k] off by d (k >= 1, d nonzero) and the
\* q recursion continued, q[k+m] is off by d*((4/3)^(m+1) - (1/3)^(m+1)) for
\* every m >= 0: not zero, larger in magnitude at every step, the fractional
\* error more than 4 times larger at every step; the fractional error exceeds
\* 1 from m = 2 on for each of the errors d made here (|d| >= 1/32).
C14_Amplifies ==
    math.dev.k >= 1 =>
        \A i \in math.dev.k..(Len(math.q) - 1) :
            LET m == i - math.dev.k
            IN  /\ DevAt(math.q, i) =
                      RMul(math.dev.d, RSub(<<4^(m + 1), 3^(m + 1)>>, <<1, 3^(m + 1)>>))
                /\ DevAt(math.q, i)[1] # 0
                /\ m >= 1 =>
                      /\ RLt(RAbs(DevAt(math.q, i - 1)), RAbs(DevAt(math.q, i)))
                      /\ RLt(RMul(<<4, 1>>, FracAt(math.q, i - 1)), FracAt(math.q, i))
                /\ m >= 2 => RLt(<<1, 1>>, FracAt(math.q, i))

C14_Witness ==
    /\ math.dev = [k |-> 1, d |-> <<1, 32>>]
    /\ Len(math.q) = MaxMath + 1
    /\ RLt(<<1, 1>>, FracAt(math.q, MaxMath))
    /\ RLt(FracAt(math.q, 1), <<1, 1>>)

\* C15: in exact arithmetic, with p[k] off by d (k >= 1) and the p recursion
\* continued, every later element p[k+m], m >= 1, is off by
\* d*(3/2^m - 2/3^m): by less than |d| in magnitude, and by less than the
\* element before it.
C15_Damps ==
    math.dev.k >= 1 =>
        \A i \in math.dev.k..(Len(math.p) - 1) :
            LET m == i - math.dev.k
            IN  /\ DevAt(math.p, i) =
                      RMul(math.dev.d, RSub(<<3, 2^m>>, <<2, 3^m>>))
                /\ m >= 1 =>
                      /\ RLt(RAbs(DevAt(math.p, i)), RAbs(math.dev.d))
                      /\ RLt(RAbs(DevAt(math.p, i)), RAbs(DevAt(math.p, i - 1)))

C15_Witness ==
    /\ math.dev = [k |-> 1, d |-> <<0 - 1, 8>>]
    /\ Len(math.p) = MaxDamp + 1
    /\ DevAt(math.p, 1) = <<0 - 1, 8>>
    /\ RLt(RAbs(DevAt(math.p, MaxDamp)), <<1, 100>>)

\* C10: with N = 40 the fractional error of qrec at index 40 is above 1.0
\* and that of prec at index 40 is below 1e-6.
C10_ErrorsAtForty ==
    ("perr" \in defined /\ "qerr" \in defined) =>
        /\ FLt(FromInt(1), At(qerr, 40))
        /\ FLt(At(perr, 40), FDiv(FromInt(1), FromInt(1000000)))

C10_Witness ==
    /\ "qerr" \in defined
    /\ Len(perr) = 41
    /\ Len(qerr) = 41
    /\ perr = NpAbs(OneMinus(NpDivide(p, expected)))
    /\ qerr = NpAbs(OneMinus(NpDivide(q, expected)))


GlobalNames == {"p", "q", "idx", "expected", "perr", "qerr"}

\* no two names of the notebook are bound to one array; the array a running
\* call stores into, and the arrays an error expression makes, are bound to
\* no name of the notebook and are apart from the expression's operands
NoSharing ==
    /\ \A f, g \in GlobalNames : f # g /\ ref[f] # 0 => ref[f] # ref[g]
    /\ IsCall /\ pc \in {"set0", "set1", "for", "body", "return"} =>
          /\ ref.loc # 0
          /\ \A g \in GlobalNames : ref[g] # ref.loc
    /\ op = "error" /\ pc \in {"subtract", "abs"} =>
          /\ ref.tmp \notin {0, ref.computed, ref.reference}
          /\ \A g \in GlobalNames : ref[g] # ref.tmp
    /\ op = "error" /\ res.kind = "value" =>
          /\ ref.res \notin {0, ref.computed, ref.reference}
          /\ \A g \in GlobalNames \ {"perr", "qerr"} : ref[g] # ref.res

\* a name of the notebook changes its value only in the assignment to it, and
\* the operands of an error expression keep their values while it is evaluated
Kept ==
    /\ p' # p => pc = "return" /\ stmt = 1
    /\ q' # q => pc = "return" /\ stmt = 2
    /\ idx' # idx => pc = "idle" /\ stmt = 3
    /\ expected' # expected => pc = "idle" /\ stmt = 4
    /\ perr' # perr => pc = "abs" /\ stmt = 5
    /\ qerr' # qerr => pc = "abs" /\ stmt = 6
    /\ pc \in {"divide", "subtract", "abs"} =>
          /\ computed' = computed
          /\ reference' = reference

\* C16: no operation modifies data it did not create.  Every call of prec or
\* qrec stores into an array made by that call, which no name of the notebook
\* is bound to, and leaves the arrays returned earlier as they were: after
\* p = prec(N); q = qrec(N), p is unchanged and is another array than q.  The
\* error expression returns an array that is neither of its operands and
\* leaves both operands unchanged.
C16_FrameEffect == [][Kept /\ NoSharing']_vars

\* the error cell has run (p and q differ, in value and as objects), and an
\* error expression evaluated after it has returned its array
C16_Witness ==
    /\ {"p", "q", "perr", "qerr"} \subseteq defined
    /\ stmt = 0
    /\ pc = "done"
    /\ op = "error"
    /\ res.kind = "value"
    /\ Len(p) = N + 1
    /\ Len(q) = N + 1
    /\ p # q
    /\ ref.p # ref.q
    /\ ref.res \notin {ref.computed, ref.reference, ref.perr, ref.qerr}


\* the indices 0, 1, ..., k - 1 in increasing order
UpTo(k) == [i \in 1..k |-> i - 1]

\* the stores made so far are those of the two initial lines and of the
\* iterations for 2, ..., j; a call that has returned has made the stores
\* to 0, 1, ..., n, so its loop body ran n - 1 times
LoopCount ==
    IsCall /\ n >= 1 =>
        /\ pc = "for" => writes = UpTo(j + 1) /\ j <= n
        /\ pc = "body" => writes = UpTo(j) /\ 2 <= j /\ j <= n
        /\ pc = "return" \/ Returned =>
              /\ writes = UpTo(n + 1)
              /\ Len(writes) - 2 = n - 1
              /\ j = Max2(n, 1)

\* C17: for every n >= 1, a call of prec(n) or qrec(n) ends by returning,
\* after executing the loop body exactly n - 1 times (not at all when
\* n = 1), for j = 2, 3, ..., n once each in increasing order.
C17_Terminates ==
    /\ []LoopCount
    /\ (IsCall /\ pc = "zeros" /\ n >= 1) ~> (IsCall /\ pc = "done" /\ res.kind = "value")

\* prec(MaxSmall) has returned, its loop body executed for 2, ..., MaxSmall
C17_Witness ==
    /\ op = "prec"
    /\ n = MaxSmall
    /\ pc = "done"
    /\ res.kind = "value"
    /\ SubSeq(writes, 3, Len(writes)) = [i \in 1..(MaxSmall - 1) |-> i + 1]


\* the array with every element but those at j-1 and j-2 made unusable
Masked(a, i) == [k \in 1..Len(a) |-> IF k - 1 \in {i - 1, i - 2} THEN a[k] ELSE FNaN]

\* what the iteration for j stores
Body(a, i) == IF op = "prec" THEN PrecBody(a, i) ELSE QrecBody(a, i)

\* at the start of the iteration for j: 0, ..., j-1 have been stored to, once
\* each, the elements from j on are still 0.0, and the value to be stored
\* depends on the elements at j-1 and j-2 alone
AtIteration ==
    op \in {"prec", "qrec"} /\ pc = "body" /\ n >= 2 =>
        /\ 2 <= j /\ j <= n
        /\ Len(loc) = n + 1
        /\ writes = UpTo(j)
        /\ \A i \in j..n : At(loc, i) = F0
        /\ Body(loc, j) = Body(Masked(loc, j), j)

\* no index is stored to twice
OnceEach == \A a, b \in 1..Len(writes) : a # b => writes[a] # writes[b]

\* an element that has been stored to stays as it is for the rest of the call,
\* and is returned as it is
Unmodified ==
    op \in {"prec", "qrec"} /\ op' = op /\ n >= 2 /\ pc \in LinePcs \ {"zeros"} =>
        /\ \A a \in 1..Len(writes) : At(loc', writes[a]) = At(loc, writes[a])
        /\ pc = "return" => res' = Value(loc) /\ {writes[a] : a \in 1..Len(writes)} = 0..n

\* C18: the loop invariant of prec and qrec for n >= 2.  At the start of the
\* iteration for j (2 <= j <= n) the elements 0..j-1 hold the values that are
\* returned and the elements j..n hold the initial 0.0; every index is stored
\* to exactly once, the iteration for j reads the elements j-1 and j-2 only,
\* and no element changes after it has been stored.
C18_LoopInvariant == []AtIteration /\ [][Unmodified /\ OnceEach']_vars

\* qrec(MaxSmall) is at the start of its last iteration
C18_Witness ==
    /\ op = "qrec"
    /\ n = MaxSmall
    /\ pc = "body"
    /\ j = n
    /\ writes = UpTo(j)
    /\ At(loc, j) = F0
    /\ At(loc, j - 1) # F0
    /\ At(loc, j - 2) # F0

====
